---- MODULE Spec2Model ----
(***************************************************************************)
(* The VT rendering engine (renderer/vt/state.cpp): its write/flush        *)
(* channel, the shutdown watchdog started by the constructor, and the      *)
(* viewport / invalidated-region bookkeeping of UpdateViewport.            *)
(*                                                                         *)
(* Two threads act on the engine: the paint thread, which calls the public *)
(* operations one at a time, and the watchdog task of the constructor.     *)
(* Every access to state shared between them (_shutdownEvent,              *)
(* _blockedThreadId, the pending WriteFile) is one step of the model.      *)
(***************************************************************************)
EXTENDS Integers, Sequences, FiniteSets, TLC

\* ------------------------------------------------------------------ bounds
\* Capacity of the accumulation buffer, in bytes: an append beyond it fails
\* the way an allocation failure does.
MaxBuf == 2
\* Longest string handed to one _Write call.
MaxStr == 2
\* Screen coordinates range over 0..MaxCoord.
MaxCoord == 1

\* ------------------------------------------------------- program constants
\* _blockedThreadId.store(0): the empty Blocked-Writer slot.
NoThread == 0
\* GetCurrentThreadId() of the paint thread: any non-zero id.
PaintThreadId == 1
\* The id of no thread, or of a thread other than the paint thread.
OtherThreadId == 2
\* _blockedThreadId in a new engine: the initializer list of the constructor
\* does not name the member and its body does not assign it, so the slot
\* holds whatever its storage held until the first store of _Flush. The
\* value stands for that unknown content; what a load of it yields is
\* decided at the load.
Uninitialized == 3
\* What _blockedThreadId.load() can yield: the value stored, or, from a slot
\* never stored into, zero, the paint thread's id or any other number.
Loaded(slot) ==
    IF slot = Uninitialized THEN {NoThread, PaintThreadId, OtherThreadId}
    ELSE {slot}

Bytes == {"a", "b"}
Strs == UNION {[1..n -> Bytes] : n \in 1..MaxStr}

S_OK == "S_OK"
E_OUTOFMEMORY == "E_OUTOFMEMORY"
E_INVALIDARG == "E_INVALIDARG"
\* The failure InvalidateAll or _InvalidCombine hands back to UpdateViewport
\* when it fails: some failed HRESULT.
E_FAIL == "E_FAIL"
E_WRITE == "HRESULT_FROM_WIN32(GetLastError())"
SUCCEEDED(h) == h = S_OK

VARIABLES
    \* ---- engine state shared with the watchdog
    shutdownEvent,      \* _shutdownEvent is signaled
    blockedThreadId,    \* _blockedThreadId
    cancelled,          \* the paint thread's pending WriteFile was cancelled
    \* ---- write/flush channel
    buffer,             \* _buffer
    fSuccess,           \* local of _Flush
    pc,                 \* position of the paint thread inside _Flush
    alive,              \* the engine has not been destructed
    pipe,               \* the peer of _hFile: "ready", "stalled", "broken"
    \* ---- watchdog task
    wdPc,               \* "wait", "load", "open", "cancel", "done"
    wdThreadId,         \* local threadId of the lambda
    wdHit,              \* what CancelSynchronousIo reached
    wdLog,              \* how often the watchdog read the slot / cancelled
    \* ---- destruction
    dtorPc,             \* position of the destroying thread in ~VtEngine
    \* ---- viewport / invalidation
    lastViewport,       \* _lastViewport
    invalidRect,        \* _invalidRect
    suppressResizeRepaint, \* _suppressResizeRepaint
    resized,            \* _resized
    \* ---- cursor and resize-request flags
    inResizeRequest,    \* _inResizeRequest
    virtualTop,         \* _virtualTop
    lastText,           \* _lastText
    skipCursor,         \* _skipCursor
    firstPaint,         \* _firstPaint
    \* ---- observations of the calls (history)
    op,                 \* the public operation called last
    hr,                 \* its HRESULT, "pending" while it runs
    flushHr,            \* HRESULT of the last _Flush, "none" if none ran
    fl,                 \* what the current / last _Flush did
    unsent,             \* bytes accepted by _Write and not yet given to WriteFile
    payload,            \* bytes given to the last WriteFile
    handed,             \* value of unsent when the last WriteFile began
    last,               \* what the last call saw and did, if it was UpdateViewport
                        \* (before: the invalidated region it found, kept when
                        \* the call failed)
    armed,              \* calls of SuppressResizeRepaint / UpdateViewport so far
    resizeCall          \* the last of Begin/EndResizeRequest called, if any,
                        \* and whether the call before it was the same

ioVars == <<shutdownEvent, blockedThreadId, cancelled, buffer, fSuccess, pc,
            alive, pipe>>
wdVars == <<wdPc, wdThreadId, wdHit, wdLog>>
tdVars == <<dtorPc>>
curVars == <<inResizeRequest, virtualTop, lastText, skipCursor, firstPaint, resizeCall>>
viewVars == <<lastViewport, invalidRect, suppressResizeRepaint, resized>>
obsVars == <<op, hr, flushHr, fl, unsent, payload, handed, last, armed>>
vars == <<ioVars, wdVars, tdVars, viewVars, curVars, obsVars>>

\* ------------------------------------------------------------- Viewport
Rect(l, t, r, b) == [Left |-> l, Top |-> t, Right |-> r, Bottom |-> b]
Empty == Rect(0, 0, -1, -1)
FromInclusive(sr) == sr
Width(v) == v.Right - v.Left + 1
Height(v) == v.Bottom - v.Top + 1
RightInclusive(v) == v.Right
BottomInclusive(v) == v.Bottom
RightExclusive(v) == v.Right + 1
BottomExclusive(v) == v.Bottom + 1
IsEmptyRect(v) == v.Right < v.Left \/ v.Bottom < v.Top

Max(a, b) == IF a >= b THEN a ELSE b
Min(a, b) == IF a <= b THEN a ELSE b
Coords == 0..MaxCoord
Rects == {Rect(l, t, r, b) : l \in Coords, t \in Coords, r \in Coords, b \in Coords}
ValidRects == {v \in Rects : ~IsEmptyRect(v)}
InitialViewport == Rect(0, 0, MaxCoord, MaxCoord)

NoFlush == [signaled |-> FALSE, stores |-> 0, writes |-> 0, failed |-> FALSE]
NoUpdate == [called |-> FALSE]
\* (mutant) a new engine does not suppress its first resize.
InitialSuppressionClear == FALSE
\* _suppressResizeRepaint(true)
InitialSuppression == TRUE
\* Neither BeginResizeRequest nor EndResizeRequest has been called.
NoResizeCall == [call |-> "none", repeated |-> FALSE]
\* COORD { 0 }
Origin == [X |-> 0, Y |-> 0]
\* The watchdog has neither read the slot nor called CancelSynchronousIo.
NoWatchdogLog == [reads |-> 0, cancels |-> 0]
\* No SuppressResizeRepaint call yet, no UpdateViewport call yet. (first:
\* whether the first UpdateViewport call of a new engine "kept" or "changed"
\* the size, remembered until a later call changes the size or
\* SuppressResizeRepaint is called; "none" otherwise.)
NotArmed == [suppressed |-> FALSE, updates |-> 0, first |-> "none"]

\* ------------------------------------------------------------- _Write
\* _buffer.append(str) inside try / CATCH_RETURN: the append happens whole or
\* not at all.
WriteResult(buf, str, allocOk) ==
    IF allocOk /\ Len(buf) + Len(str) <= MaxBuf
    THEN [hr |-> S_OK, buf |-> buf \o str]
    ELSE [hr |-> E_OUTOFMEMORY, buf |-> buf]

Write ==
    /\ alive /\ pc = "idle"
    /\ \E str \in Strs, allocOk \in BOOLEAN :
         LET w == WriteResult(buffer, str, allocOk) IN
         /\ buffer' = w.buf
         /\ hr' = w.hr
         /\ unsent' = IF SUCCEEDED(w.hr) THEN unsent \o str ELSE unsent
    /\ op' = "Write"
    /\ UNCHANGED <<shutdownEvent, blockedThreadId, cancelled, fSuccess, pc, alive, pipe>>
    /\ UNCHANGED <<wdVars, viewVars, flushHr, fl, payload, handed, last, armed>>
    /\ UNCHANGED <<tdVars, curVars>>

\* ---------------------------------------------- _WriteFormattedString
\* The function is noexcept: gsl::narrow<size_t>(cchWritten) throwing inside
\* it ends the process through std::terminate, and no HRESULT is returned.
Terminated == "std::terminate"

\* int cchNeeded = _scprintf(pFormat->c_str(), argList): the va_list is
\* handed over as if it were the first of the variadic arguments. A format
\* without conversions reads no argument and is measured as it is; for a
\* format with conversions the length comes from reading something that is
\* not the arguments, and can be the error value, too short for the string
\* the arguments really give, or long enough for it.
NeededOutcomes(conversions) ==
    IF conversions THEN {"error", "short", "enough"} ELSE {"error", "enough"}

\* cchNeeded = -1: E_INVALIDARG; the buffer for the formatted string cannot
\* be allocated: E_OUTOFMEMORY; a buffer too short: _vsnprintf_s truncates
\* and returns -1, which gsl::narrow<size_t> refuses by throwing; else the
\* formatted string goes through _Write.
WriteFormattedStringResult(buf, formatted, cchNeeded, pszOk, allocOk) ==
    IF cchNeeded = "error" THEN [hr |-> E_INVALIDARG, buf |-> buf]
    ELSE IF ~pszOk THEN [hr |-> E_OUTOFMEMORY, buf |-> buf]
    ELSE IF cchNeeded = "short" THEN [hr |-> Terminated, buf |-> buf]
    ELSE WriteResult(buf, formatted, allocOk)

\* A call of _WriteFormattedString whose format and arguments give the
\* string formatted. A call that ends in std::terminate does not return:
\* the paint thread makes no further call.
WriteFormattedString ==
    /\ alive /\ pc = "idle"
    /\ \E formatted \in Strs, conversions \in BOOLEAN, pszOk \in BOOLEAN, allocOk \in BOOLEAN :
         \E cchNeeded \in NeededOutcomes(conversions) :
         LET w == WriteFormattedStringResult(buffer, formatted, cchNeeded, pszOk, allocOk) IN
         /\ buffer' = w.buf
         /\ hr' = w.hr
         /\ unsent' = IF SUCCEEDED(w.hr) THEN unsent \o formatted ELSE unsent
         /\ pc' = IF w.hr = Terminated THEN "terminated" ELSE pc
    /\ op' = "WriteFormattedString"
    /\ UNCHANGED <<shutdownEvent, blockedThreadId, cancelled, fSuccess, alive, pipe>>
    /\ UNCHANGED <<wdVars, viewVars, flushHr, fl, payload, handed, last, armed>>
    /\ UNCHANGED <<tdVars, curVars>>

\* ------------------------------------------------------------- _Flush
\* (mutant) the pre-check is missing: _Flush always goes to the pipe.
FlushSkipsNever == FALSE

\* if (!_shutdownEvent.is_signaled()) { ... } return S_OK;
FlushSkips == shutdownEvent

\* The pre-check of _Flush, made by the operation o that calls it.
FlushEnter(o) ==
    /\ op' = o
    /\ fl' = [NoFlush EXCEPT !.signaled = shutdownEvent]
    /\ IF FlushSkips
       THEN /\ pc' = "idle"
            /\ flushHr' = S_OK
            /\ hr' = S_OK
       ELSE /\ pc' = "store"
            /\ flushHr' = "pending"
            /\ hr' = "pending"

Flush ==
    /\ alive /\ pc = "idle"
    /\ FlushEnter("Flush")
    /\ UNCHANGED <<shutdownEvent, blockedThreadId, cancelled, buffer, fSuccess, alive, pipe>>
    /\ UNCHANGED <<wdVars, viewVars, unsent, payload, handed, last, armed>>
    /\ UNCHANGED <<tdVars, curVars>>

\* _blockedThreadId.store(GetCurrentThreadId());
FlushStore ==
    /\ pc = "store"
    /\ blockedThreadId' = PaintThreadId
    /\ fl' = [fl EXCEPT !.stores = @ + 1]
    /\ pc' = "write"
    /\ UNCHANGED <<shutdownEvent, cancelled, buffer, fSuccess, alive, pipe>>
    /\ UNCHANGED <<wdVars, viewVars, op, hr, flushHr, unsent, payload, handed, last, armed>>
    /\ UNCHANGED <<tdVars, curVars>>

\* The thread enters WriteFile(_hFile, _buffer.data(), _buffer.size()): from
\* here until WriteFile returns, the write is the thread's pending
\* synchronous I/O.
WritePayload(buf) == buf

FlushWriteBegin ==
    /\ pc = "write"
    /\ payload' = WritePayload(buffer)
    /\ handed' = unsent
    /\ unsent' = <<>>
    /\ fl' = [fl EXCEPT !.writes = @ + 1]
    /\ cancelled' = FALSE
    /\ pc' = "inWrite"
    /\ UNCHANGED <<shutdownEvent, blockedThreadId, buffer, fSuccess, alive, pipe>>
    /\ UNCHANGED <<wdVars, viewVars, op, hr, flushHr, last, armed>>
    /\ UNCHANGED <<tdVars, curVars>>

\* WriteFile returns: at once on a pipe that takes the bytes or is broken;
\* on a pipe whose peer does not read, only when the I/O is cancelled.
WriteFileReturns == pipe # "stalled" \/ cancelled
WriteFileResult == pipe = "ready" /\ ~cancelled

FlushWriteEnd ==
    /\ pc = "inWrite"
    /\ WriteFileReturns
    /\ fSuccess' = WriteFileResult
    /\ fl' = [fl EXCEPT !.failed = ~WriteFileResult]
    /\ cancelled' = FALSE
    /\ pc' = "clear"
    /\ UNCHANGED <<shutdownEvent, blockedThreadId, buffer, alive, pipe>>
    /\ UNCHANGED <<wdVars, viewVars, op, hr, flushHr, unsent, payload, handed, last, armed>>
    /\ UNCHANGED <<tdVars, curVars>>

\* _blockedThreadId.store(0);
FlushClear ==
    /\ pc = "clear"
    /\ blockedThreadId' = NoThread
    /\ pc' = "post"
    /\ UNCHANGED <<shutdownEvent, cancelled, buffer, fSuccess, alive, pipe>>
    /\ UNCHANGED <<wdVars, viewVars, obsVars>>
    /\ UNCHANGED <<tdVars, curVars>>

\* (mutant) the buffer is kept after the write.
ClearedBufferKept(buf) == buf
\* _buffer.clear();
ClearedBuffer(buf) == <<>>

\* (mutant) a failed write does not set the event.
SignalAfterWriteForgotten(ok, ev) == ev
\* if (!fSuccess) { _shutdownEvent.SetEvent(); ... }
SignalAfterWrite(ok, ev) == IF ~ok THEN TRUE ELSE ev

\* if (!fSuccess) { ...; RETURN_LAST_ERROR(); } ... return S_OK;
FlushReturn(ok) == IF ~ok THEN E_WRITE ELSE S_OK

\* (mutant) the result of _Flush is dropped.
RequestCursorReturnSwallowed(f) == S_OK
\* RequestCursor: RETURN_IF_FAILED(_Flush()); return S_OK;
RequestCursorReturn(f) == IF ~SUCCEEDED(f) THEN f ELSE S_OK

\* (mutant) the bytes of a failed write are kept for a retry.
FlushFinishKeepsFailed ==
    /\ pc = "post"
    /\ buffer' = IF fSuccess THEN ClearedBuffer(buffer) ELSE buffer
    /\ shutdownEvent' = SignalAfterWrite(fSuccess, shutdownEvent)
    /\ flushHr' = FlushReturn(fSuccess)
    /\ hr' = IF op = "RequestCursor"
             THEN RequestCursorReturn(FlushReturn(fSuccess))
             ELSE FlushReturn(fSuccess)
    /\ pc' = "idle"
    /\ UNCHANGED <<blockedThreadId, cancelled, fSuccess, alive, pipe>>
    /\ UNCHANGED <<wdVars, viewVars, op, fl, unsent, payload, handed, last, armed>>
    /\ UNCHANGED <<tdVars, curVars>>

FlushFinish ==
    /\ pc = "post"
    /\ buffer' = ClearedBuffer(buffer)
    /\ shutdownEvent' = SignalAfterWrite(fSuccess, shutdownEvent)
    /\ flushHr' = FlushReturn(fSuccess)
    /\ hr' = IF op = "RequestCursor"
             THEN RequestCursorReturn(FlushReturn(fSuccess))
             ELSE FlushReturn(fSuccess)
    /\ pc' = "idle"
    /\ UNCHANGED <<blockedThreadId, cancelled, fSuccess, alive, pipe>>
    /\ UNCHANGED <<wdVars, viewVars, op, fl, unsent, payload, handed, last, armed>>
    /\ UNCHANGED <<tdVars, curVars>>

\* ------------------------------------------------------ RequestCursor
\* _RequestCursor(): the cursor-position-report request, through _Write.
CursorRequest == <<"ESC[6n">>

RequestCursor ==
    /\ alive /\ pc = "idle"
    /\ \E allocOk \in BOOLEAN :
         LET w == WriteResult(buffer, CursorRequest, allocOk) IN
         /\ buffer' = w.buf
         /\ IF SUCCEEDED(w.hr)
            THEN /\ unsent' = unsent \o CursorRequest
                 /\ FlushEnter("RequestCursor")
            ELSE /\ op' = "RequestCursor"
                 /\ hr' = w.hr
                 /\ flushHr' = "none"
                 /\ fl' = NoFlush
                 /\ pc' = "idle"
                 /\ unsent' = unsent
    /\ UNCHANGED <<shutdownEvent, blockedThreadId, cancelled, fSuccess, alive, pipe>>
    /\ UNCHANGED <<wdVars, viewVars, payload, handed, last, armed>>
    /\ UNCHANGED <<tdVars, curVars>>

\* ------------------------------------------------- shutdown watchdog
\* (mutant) the wait consumes the signal, as on an auto-reset event.
WatchdogWakeAutoReset ==
    /\ wdPc = "wait"
    /\ shutdownEvent
    /\ shutdownEvent' = FALSE
    /\ wdPc' = "load"
    /\ UNCHANGED <<blockedThreadId, cancelled, buffer, fSuccess, pc, alive, pipe>>
    /\ UNCHANGED <<wdThreadId, wdHit, wdLog, viewVars, obsVars>>
    /\ UNCHANGED <<tdVars, curVars>>

\* (mutant) the wait returns although the event is not set.
WatchdogWakeSpurious ==
    /\ wdPc = "wait"
    /\ wdPc' = "load"
    /\ UNCHANGED <<ioVars, wdThreadId, wdHit, wdLog, viewVars, obsVars>>
    /\ UNCHANGED <<tdVars, curVars>>

\* _shutdownEvent.wait() returns.
WatchdogWake ==
    /\ wdPc = "wait"
    /\ shutdownEvent
    /\ wdPc' = "load"
    /\ UNCHANGED <<ioVars, wdThreadId, wdHit, wdLog, viewVars, obsVars>>
    /\ UNCHANGED <<tdVars, curVars>>

\* if (const auto threadId = _blockedThreadId.load())
WatchdogLoad ==
    /\ wdPc = "load"
    /\ \E threadId \in Loaded(blockedThreadId) :
         /\ wdThreadId' = threadId
         /\ wdPc' = IF threadId # NoThread THEN "open" ELSE "done"
    /\ wdLog' = [wdLog EXCEPT !.reads = @ + 1]
    /\ UNCHANGED <<ioVars, wdHit, viewVars, obsVars>>
    /\ UNCHANGED <<tdVars, curVars>>

\* OpenThread(...): a handle, or null (logged, nothing else done).
WatchdogOpen ==
    /\ wdPc = "open"
    /\ \E opened \in BOOLEAN :
         /\ wdPc' = IF opened THEN "cancel" ELSE "done"
         /\ wdHit' = IF opened THEN wdHit ELSE "unopened"
    /\ UNCHANGED <<ioVars, wdThreadId, wdLog, viewVars, obsVars>>
    /\ UNCHANGED <<tdVars, curVars>>

\* (mutant) CancelSynchronousIo returns only once it found I/O to cancel.
WatchdogCancelWaits ==
    /\ wdPc = "cancel"
    /\ pc = "inWrite" /\ wdThreadId = PaintThreadId
    /\ cancelled' = TRUE /\ wdHit' = "write"
    /\ wdLog' = [wdLog EXCEPT !.cancels = @ + 1]
    /\ wdPc' = "done"
    /\ UNCHANGED <<shutdownEvent, blockedThreadId, buffer, fSuccess, pc, alive, pipe>>
    /\ UNCHANGED <<wdThreadId, viewVars, obsVars>>
    /\ UNCHANGED <<tdVars, curVars>>

\* CancelSynchronousIo(threadHandle): cancels the synchronous I/O the thread
\* has pending at this moment; with none pending it fails (logged). On a
\* thread other than the paint thread it reaches no write of the engine.
WatchdogCancel ==
    /\ wdPc = "cancel"
    /\ IF pc = "inWrite" /\ wdThreadId = PaintThreadId
       THEN cancelled' = TRUE /\ wdHit' = "write"
       ELSE cancelled' = cancelled /\ wdHit' = "nowrite"
    /\ wdLog' = [wdLog EXCEPT !.cancels = @ + 1]
    /\ wdPc' = "done"
    /\ UNCHANGED <<shutdownEvent, blockedThreadId, buffer, fSuccess, pc, alive, pipe>>
    /\ UNCHANGED <<wdThreadId, viewVars, obsVars>>
    /\ UNCHANGED <<tdVars, curVars>>

\* ------------------------------------------------------- ~VtEngine
\* The body of the destructor: if (_shutdownEvent) { _shutdownEvent.SetEvent(); }
\* (the constructor throws when the event is null). The members are destroyed
\* after it.
Destructor ==
    /\ alive /\ pc = "idle"
    /\ shutdownEvent' = TRUE
    /\ alive' = FALSE
    /\ dtorPc' = "join"
    /\ UNCHANGED <<blockedThreadId, cancelled, buffer, fSuccess, pc, pipe>>
    /\ UNCHANGED <<wdVars, viewVars, obsVars>>
    /\ UNCHANGED curVars


\* ~future of _shutdownWatchdog, obtained from std::async(std::launch::async):
\* it blocks until the watchdog lambda has returned.
DestructorJoin ==
    /\ dtorPc = "join"
    /\ wdPc = "done"
    /\ dtorPc' = "done"
    /\ UNCHANGED <<ioVars, wdVars, viewVars, curVars, obsVars>>


\* ---------------------------------------------------- environment
\* Another holder of the shared event sets it.
ExternalSetEvent ==
    /\ shutdownEvent' = TRUE
    /\ UNCHANGED <<blockedThreadId, cancelled, buffer, fSuccess, pc, alive, pipe>>
    /\ UNCHANGED <<wdVars, viewVars, obsVars>>
    /\ UNCHANGED <<tdVars, curVars>>

\* The peer stops reading: from now on a write blocks.
PeerStalls ==
    /\ pipe = "ready"
    /\ pipe' = "stalled"
    /\ UNCHANGED <<shutdownEvent, blockedThreadId, cancelled, buffer, fSuccess, pc, alive>>
    /\ UNCHANGED <<wdVars, viewVars, obsVars>>
    /\ UNCHANGED <<tdVars, curVars>>

\* The peer closes its end: from now on a write fails.
PeerCloses ==
    /\ pipe = "ready"
    /\ pipe' = "broken"
    /\ UNCHANGED <<shutdownEvent, blockedThreadId, cancelled, buffer, fSuccess, pc, alive>>
    /\ UNCHANGED <<wdVars, viewVars, obsVars>>
    /\ UNCHANGED <<tdVars, curVars>>

\* ------------------------------------------------- specifications
\* The state after VtEngine::VtEngine.
Init ==
    /\ shutdownEvent = FALSE
    /\ blockedThreadId = Uninitialized
    /\ cancelled = FALSE
    /\ buffer = <<>>
    /\ fSuccess = FALSE
    /\ pc = "idle"
    /\ alive = TRUE
    /\ pipe = "ready"
    /\ wdPc = "wait"
    /\ wdThreadId = NoThread
    /\ wdHit = "none"
    /\ wdLog = NoWatchdogLog
    /\ dtorPc = "none"
    /\ lastViewport = InitialViewport
    /\ invalidRect = Empty
    /\ suppressResizeRepaint = InitialSuppression
    /\ resized = FALSE
    /\ inResizeRequest = FALSE
    /\ virtualTop = 0
    /\ lastText = Origin
    /\ skipCursor = FALSE
    /\ firstPaint = TRUE
    /\ resizeCall = NoResizeCall
    /\ op = "none"
    /\ hr = S_OK
    /\ flushHr = "none"
    /\ fl = NoFlush
    /\ unsent = <<>>
    /\ payload = <<>>
    /\ handed = <<>>
    /\ last = NoUpdate
    /\ armed = NotArmed

Next ==
    \/ Write
    \/ Flush
    \/ FlushStore
    \/ FlushWriteBegin
    \/ FlushWriteEnd
    \/ FlushClear
    \/ FlushFinish
    \/ RequestCursor
    \/ WatchdogWake
    \/ WatchdogLoad
    \/ WatchdogOpen
    \/ WatchdogCancel
    \/ Destructor
    \/ DestructorJoin
    \/ ExternalSetEvent
    \/ PeerStalls
    \/ PeerCloses

\* The write/flush channel, the watchdog and the shutdown signal.
Spec == Init /\ [][Next]_vars

\* The same, with the threads scheduled fairly: a thread that can take its
\* next step inside _Flush or inside the watchdog lambda eventually takes it.
FairSpec ==
    /\ Spec
    /\ WF_vars(FlushStore)
    /\ WF_vars(FlushWriteBegin)
    /\ WF_vars(FlushWriteEnd)
    /\ WF_vars(FlushClear)
    /\ WF_vars(FlushFinish)
    /\ WF_vars(WatchdogWake)
    /\ WF_vars(WatchdogLoad)
    /\ WF_vars(WatchdogOpen)
    /\ WF_vars(WatchdogCancel)
    /\ WF_vars(DestructorJoin)

NextWrite ==
    \/ Write
    \/ WriteFormattedString
    \/ Flush
    \/ FlushStore
    \/ FlushWriteBegin
    \/ FlushWriteEnd
    \/ FlushClear
    \/ FlushFinish
    \/ ExternalSetEvent
    \/ PeerCloses

\* The paint thread appending strings and formatted sequences between
\* flushes, while the peer may close the pipe and another holder may set the
\* event.
WriteSpec == Init /\ [][NextWrite]_vars

\* =================================================================
\* Viewport and invalidated region (paint thread only)
\* =================================================================
Intersect(a, b) ==
    Rect(Max(a.Left, b.Left), Max(a.Top, b.Top),
         Min(a.Right, b.Right), Min(a.Bottom, b.Bottom))
\* The smallest rectangle holding both.
OrViewports(a, b) ==
    Rect(Min(a.Left, b.Left), Min(a.Top, b.Top),
         Max(a.Right, b.Right), Max(a.Bottom, b.Bottom))
Contains(outer, inner) ==
    /\ outer.Left <= inner.Left /\ inner.Right <= outer.Right
    /\ outer.Top <= inner.Top /\ inner.Bottom <= outer.Bottom

\* _InvalidCombine(invalid): the rectangle, clipped to the viewport, is
\* united into the invalidated region; a rectangle that misses the viewport
\* changes nothing.
InvalidCombine(region, view, invalid) ==
    LET clipped == Intersect(invalid, view) IN
    IF IsEmptyRect(clipped) THEN region
    ELSE IF IsEmptyRect(region) THEN clipped
    ELSE OrViewports(region, clipped)

\* InvalidateAll(): the region a successful call makes, the whole viewport.
\* The call returns an HRESULT and can fail (Invalidated), called by the
\* paint thread or by UpdateViewport.
InvalidateAllResult(view) == view

\* _ResizeWindow(sWidth, sHeight): the resize sequence for that size is
\* appended to the buffer, or the failure to build it is returned.
ResizeSeq(w, h) == <<"ESC[8;" \o ToString(h), ";" \o ToString(w) \o "t">>
ResizeWindowResult(buf, w, h, allocOk) == WriteResult(buf, ResizeSeq(w, h), allocOk)

\* if (oldView.Height() > newView.Height() || oldView.Width() > newView.Width())
Shrank(oldView, newView) ==
    Height(oldView) > Height(newView) \/ Width(oldView) > Width(newView)

\* hr = InvalidateAll(); hr = _InvalidCombine(...): what UpdateViewport gets
\* from one of its calls on the region: S_OK and the region the call made,
\* or the failure of a call that left the region as it was.
Invalidated(ok, region, made) ==
    IF ok THEN [hr |-> S_OK, region |-> made]
    ELSE [hr |-> E_FAIL, region |-> region]

\* Which of the calls on the region UpdateViewport makes can fail: ok.all is
\* InvalidateAll, ok.right and ok.below the two calls of _InvalidCombine. A
\* call that is not made does not fail; the second _InvalidCombine is not
\* made after a failed first one.
InvalidationOutcomes(h, oldView, newView) ==
    IF ~SUCCEEDED(h)
    THEN {[all |-> TRUE, right |-> TRUE, below |-> TRUE]}
    ELSE IF Shrank(oldView, newView)
    THEN {[all |-> a, right |-> TRUE, below |-> TRUE] : a \in BOOLEAN}
    ELSE {[all |-> TRUE, right |-> r, below |-> b] :
             r \in (IF Width(oldView) < Width(newView) THEN BOOLEAN ELSE {TRUE}),
             b \in (IF Height(oldView) < Height(newView) THEN BOOLEAN ELSE {TRUE})}
         \ {[all |-> TRUE, right |-> FALSE, below |-> FALSE]}

\* (mutant) the second test repeats the first: widths compared twice.
GrownInvalidWidthTwice(h, oldView, newView, region, ok) ==
    LET r1 == IF Width(oldView) < Width(newView)
              THEN Invalidated(ok.right, region,
                       InvalidCombine(region, newView,
                           FromInclusive(Rect(RightExclusive(oldView), 0,
                                              RightInclusive(newView), BottomInclusive(oldView)))))
              ELSE [hr |-> h, region |-> region]
    IN  IF SUCCEEDED(r1.hr) /\ Width(oldView) < Width(newView)
        THEN Invalidated(ok.below, r1.region,
                 InvalidCombine(r1.region, newView,
                     FromInclusive(Rect(0, BottomExclusive(oldView),
                                        RightInclusive(newView), BottomInclusive(newView)))))
        ELSE r1
\* The else branch of UpdateViewport: everything to the right of the old
\* viewport, then, if (SUCCEEDED(hr) && ...), everything below it.
GrownInvalid(h, oldView, newView, region, ok) ==
    LET r1 == IF Width(oldView) < Width(newView)
              THEN Invalidated(ok.right, region,
                       InvalidCombine(region, newView,
                           FromInclusive(Rect(RightExclusive(oldView), 0,
                                              RightInclusive(newView), BottomInclusive(oldView)))))
              ELSE [hr |-> h, region |-> region]
    IN  IF SUCCEEDED(r1.hr) /\ Height(oldView) < Height(newView)
        THEN Invalidated(ok.below, r1.region,
                 InvalidCombine(r1.region, newView,
                     FromInclusive(Rect(0, BottomExclusive(oldView),
                                        RightInclusive(newView), BottomInclusive(newView)))))
        ELSE r1

\* (mutant) the region is updated whatever _ResizeWindow returned.
UpdatedInvalidUnchecked(h, oldView, newView, region, ok) ==
    IF Shrank(oldView, newView)
    THEN Invalidated(ok.all, region, InvalidateAllResult(newView))
    ELSE GrownInvalid(h, oldView, newView, region, ok)
\* if (SUCCEEDED(hr)) { ... }: the invalidated region UpdateViewport leaves
\* and the HRESULT it returns.
UpdatedInvalid(h, oldView, newView, region, ok) ==
    IF SUCCEEDED(h)
    THEN IF Shrank(oldView, newView)
         THEN Invalidated(ok.all, region, InvalidateAllResult(newView))
         ELSE GrownInvalid(h, oldView, newView, region, ok)
    ELSE [hr |-> h, region |-> region]

\* (mutant) the suppression request is left as it was.
SuppressionAfterUpdateKept(flag) == flag
\* _suppressResizeRepaint = false;
SuppressionAfterUpdate(flag) == FALSE

\* (mutant) the viewport is replaced only when the call succeeds.
UpdatedViewportOnSuccess(h, oldView, newView) == IF SUCCEEDED(h) THEN newView ELSE oldView
\* _lastViewport = newView; before anything that can fail.
UpdatedViewport(h, oldView, newView) == newView

\* (mutant) only a change of width is looked at.
EmitsResizeWidthOnly(oldView, newView, flag) ==
    /\ Width(oldView) # Width(newView)
    /\ ~flag
\* The resize sequence is emitted when the size changed and no suppression
\* was requested.
EmitsResize(oldView, newView, flag) ==
    /\ (Height(oldView) # Height(newView)) \/ (Width(oldView) # Width(newView))
    /\ ~flag

Sign(n) == IF n > 0 THEN 1 ELSE IF n < 0 THEN -1 ELSE 0

UpdateViewport ==
    /\ alive /\ pc = "idle"
    /\ \E srNewViewport \in ValidRects :
         LET oldView == lastViewport
             newView == FromInclusive(srNewViewport)
             emits == EmitsResize(oldView, newView, suppressResizeRepaint)
         IN
         \E allocOk \in (IF emits THEN BOOLEAN ELSE {TRUE}) :
           LET w == IF emits
                    THEN ResizeWindowResult(buffer, Width(newView), Height(newView), allocOk)
                    ELSE [hr |-> S_OK, buf |-> buffer]
           IN
           \E ok \in InvalidationOutcomes(w.hr, oldView, newView) :
           LET u == UpdatedInvalid(w.hr, oldView, newView, invalidRect, ok)
           IN
           /\ lastViewport' = UpdatedViewport(w.hr, oldView, newView)
           /\ buffer' = w.buf
           /\ unsent' = IF emits /\ SUCCEEDED(w.hr)
                        THEN unsent \o ResizeSeq(Width(newView), Height(newView))
                        ELSE unsent
           /\ suppressResizeRepaint' = SuppressionAfterUpdate(suppressResizeRepaint)
           /\ invalidRect' = u.region
           /\ resized' = TRUE
           /\ hr' = u.hr
           /\ last' = [called |-> TRUE,
                       pre |-> armed,
                       flag |-> suppressResizeRepaint,
                       arg |-> srNewViewport,
                       before |-> IF SUCCEEDED(w.hr) THEN <<>> ELSE <<invalidRect>>,
                       dW |-> Sign(Width(newView) - Width(oldView)),
                       dH |-> Sign(Height(newView) - Height(oldView)),
                       wasEmpty |-> IsEmptyRect(invalidRect),
                       emit |-> IF emits THEN <<Width(newView), Height(newView)>> ELSE <<>>]
           /\ armed' = [suppressed |-> armed.suppressed,
                       updates |-> 1,
                       first |-> LET differs == \/ Width(newView) # Width(oldView)
                                                \/ Height(newView) # Height(oldView)
                                 IN IF armed.suppressed THEN "none"
                                    ELSE IF armed.updates = 0
                                    THEN (IF differs THEN "changed" ELSE "kept")
                                    ELSE IF differs THEN "none" ELSE armed.first]
    /\ op' = "UpdateViewport"
    /\ UNCHANGED <<shutdownEvent, blockedThreadId, cancelled, fSuccess, pc, alive, pipe>>
    /\ UNCHANGED <<wdVars, flushHr, fl, payload, handed>>
    /\ UNCHANGED <<tdVars, curVars>>

\* Invalidate(rect): return _InvalidCombine(rect). The outcomes over every
\* rect: the region combined with it, or the failure of the call, which
\* leaves the region as it was.
Invalidate ==
    /\ alive /\ pc = "idle"
    /\ \E r \in {Invalidated(TRUE, invalidRect,
                               InvalidCombine(invalidRect, lastViewport, rect)) :
                       rect \in ValidRects}
                  \cup {Invalidated(FALSE, invalidRect, invalidRect)} :
         /\ invalidRect' = r.region
         /\ hr' = r.hr
    /\ op' = "Invalidate"
    /\ last' = NoUpdate
    /\ UNCHANGED <<ioVars, wdVars, lastViewport, suppressResizeRepaint, resized>>
    /\ UNCHANGED <<flushHr, fl, unsent, payload, handed, armed>>
    /\ UNCHANGED <<tdVars, curVars>>

\* InvalidateAll(), called by the paint thread: the same call UpdateViewport
\* makes on a smaller viewport, with the same two outcomes.
InvalidateAll ==
    /\ alive /\ pc = "idle"
    /\ \E ok \in BOOLEAN :
         LET r == Invalidated(ok, invalidRect, InvalidateAllResult(lastViewport)) IN
         /\ invalidRect' = r.region
         /\ hr' = r.hr
    /\ op' = "InvalidateAll"
    /\ last' = NoUpdate
    /\ UNCHANGED <<ioVars, wdVars, lastViewport, suppressResizeRepaint, resized>>
    /\ UNCHANGED <<flushHr, fl, unsent, payload, handed, armed>>
    /\ UNCHANGED <<tdVars, curVars>>

\* The paint is complete: nothing is left to retransmit.
PaintComplete ==
    /\ alive /\ pc = "idle"
    /\ invalidRect' = Empty
    /\ op' = "PaintComplete"
    /\ hr' = S_OK
    /\ last' = NoUpdate
    /\ UNCHANGED <<ioVars, wdVars, lastViewport, suppressResizeRepaint, resized>>
    /\ UNCHANGED <<flushHr, fl, unsent, payload, handed, armed>>
    /\ UNCHANGED <<tdVars, curVars>>

SuppressResizeRepaint ==
    /\ alive /\ pc = "idle"
    /\ suppressResizeRepaint' = TRUE
    /\ op' = "SuppressResizeRepaint"
    /\ hr' = S_OK
    /\ last' = NoUpdate
    /\ armed' = [suppressed |-> TRUE, updates |-> 0, first |-> "none"]
    /\ UNCHANGED <<ioVars, wdVars, lastViewport, invalidRect, resized>>
    /\ UNCHANGED <<flushHr, fl, unsent, payload, handed>>
    /\ UNCHANGED <<tdVars, curVars>>

\* _AllIsInvalid()
AllIsInvalid == lastViewport = invalidRect

\* The state after VtEngine::VtEngine, for any initial viewport.
InitView ==
    /\ shutdownEvent = FALSE
    /\ blockedThreadId = Uninitialized
    /\ cancelled = FALSE
    /\ buffer = <<>>
    /\ fSuccess = FALSE
    /\ pc = "idle"
    /\ alive = TRUE
    /\ pipe = "ready"
    /\ wdPc = "wait"
    /\ wdThreadId = NoThread
    /\ wdHit = "none"
    /\ wdLog = NoWatchdogLog
    /\ dtorPc = "none"
    /\ lastViewport \in ValidRects
    /\ invalidRect = Empty
    /\ suppressResizeRepaint = InitialSuppression
    /\ resized = FALSE
    /\ inResizeRequest = FALSE
    /\ virtualTop = 0
    /\ lastText = Origin
    /\ skipCursor = FALSE
    /\ firstPaint = TRUE
    /\ resizeCall = NoResizeCall
    /\ op = "none"
    /\ hr = S_OK
    /\ flushHr = "none"
    /\ fl = NoFlush
    /\ unsent = <<>>
    /\ payload = <<>>
    /\ handed = <<>>
    /\ last = NoUpdate
    /\ armed = NotArmed

NextView ==
    \/ UpdateViewport
    \/ Invalidate
    \/ InvalidateAll
    \/ PaintComplete

\* The paint thread's viewport and invalidation calls on a new engine.
ViewSpec == InitView /\ [][NextView]_vars

NextResize ==
    \/ UpdateViewport
    \/ SuppressResizeRepaint

\* The paint thread's viewport calls with requests to suppress the next
\* resize sequence in between.
ResizeSpec == InitView /\ [][NextResize]_vars

\* =================================================================
\* Cursor inheritance and the resize-request bracket (paint thread only)
\* =================================================================
\* (mutant) the column is taken for the row.
InheritedTopColumn(coordCursor) == coordCursor.X
\* _virtualTop = coordCursor.Y;
InheritedTop(coordCursor) == coordCursor.Y

\* InheritCursor(coordCursor)
InheritCursor ==
    /\ alive /\ pc = "idle"
    /\ \E coordCursor \in [X : Coords, Y : Coords] :
         /\ virtualTop' = InheritedTop(coordCursor)
         /\ lastText' = coordCursor
         /\ last' = [called |-> FALSE, cursor |-> coordCursor]
    /\ skipCursor' = TRUE
    /\ firstPaint' = FALSE
    /\ op' = "InheritCursor"
    /\ hr' = S_OK
    /\ UNCHANGED <<ioVars, wdVars, tdVars, viewVars, inResizeRequest, resizeCall>>
    /\ UNCHANGED <<flushHr, fl, unsent, payload, handed, armed>>

\* BeginResizeRequest(): no return value.
BeginResizeRequest ==
    /\ alive /\ pc = "idle"
    /\ inResizeRequest' = TRUE
    /\ resizeCall' = [call |-> "begin", repeated |-> resizeCall.call = "begin"]
    /\ op' = "BeginResizeRequest"
    /\ last' = NoUpdate
    /\ UNCHANGED <<ioVars, wdVars, tdVars, viewVars>>
    /\ UNCHANGED <<virtualTop, lastText, skipCursor, firstPaint>>
    /\ UNCHANGED <<hr, flushHr, fl, unsent, payload, handed, armed>>

\* (mutant) the end of a request flips the flag.
EndResizeRequestToggles ==
    /\ alive /\ pc = "idle"
    /\ inResizeRequest' = ~inResizeRequest
    /\ resizeCall' = [call |-> "end", repeated |-> resizeCall.call = "end"]
    /\ op' = "EndResizeRequest"
    /\ last' = NoUpdate
    /\ UNCHANGED <<ioVars, wdVars, tdVars, viewVars>>
    /\ UNCHANGED <<virtualTop, lastText, skipCursor, firstPaint>>
    /\ UNCHANGED <<hr, flushHr, fl, unsent, payload, handed, armed>>

\* EndResizeRequest(): no return value.
EndResizeRequest ==
    /\ alive /\ pc = "idle"
    /\ inResizeRequest' = FALSE
    /\ resizeCall' = [call |-> "end", repeated |-> resizeCall.call = "end"]
    /\ op' = "EndResizeRequest"
    /\ last' = NoUpdate
    /\ UNCHANGED <<ioVars, wdVars, tdVars, viewVars>>
    /\ UNCHANGED <<virtualTop, lastText, skipCursor, firstPaint>>
    /\ UNCHANGED <<hr, flushHr, fl, unsent, payload, handed, armed>>

NextCall ==
    \/ InheritCursor
    \/ BeginResizeRequest
    \/ EndResizeRequest
    \/ SuppressResizeRepaint
    \/ InvalidateAll
    \/ Write

\* The paint thread's cursor and resize-request calls, between other calls
\* that change the suppression flag, the invalidated region and the buffer,
\* for any initial viewport.
CallSpec == InitView /\ [][NextCall]_vars

\* =================================================================
\* Properties of the write/flush channel and of the shutdown protocol
\* (specifications Spec and FairSpec).
\* =================================================================

\* C1: a _Flush inside WriteFile on a pipe whose peer never reads, with the
\* shutdown event set, eventually returns a failure (the watchdog cancels the
\* write). Granted to the claim: OpenThread succeeds.
FlushCancellation ==
    (pc = "inWrite" /\ pipe = "stalled" /\ shutdownEvent)
        ~> ((pc = "idle" /\ ~SUCCEEDED(flushHr)) \/ wdHit = "unopened")

\* C6: a _Flush that begins with the shutdown event set returns S_OK at once,
\* calls WriteFile not at all and never stores into _blockedThreadId.
FlushAfterShutdown ==
    fl.signaled =>
        /\ pc = "idle"
        /\ flushHr = S_OK
        /\ fl.writes = 0
        /\ fl.stores = 0
        /\ (op \in {"Flush", "RequestCursor"} => hr = S_OK)

FlushAfterShutdownSeen ==
    /\ fl.signaled /\ op = "Flush" /\ pc = "idle"
    /\ buffer # <<>> /\ blockedThreadId = NoThread

\* C7: when the WriteFile of a _Flush failed (a broken pipe, or a write the
\* watchdog cancelled), then once _Flush has returned the shutdown event is
\* set, the result is a failure, and WriteFile was called once only.
WriteFailureIsFatal ==
    (pc = "idle" /\ fl.failed) =>
        /\ shutdownEvent
        /\ ~SUCCEEDED(flushHr)
        /\ fl.writes = 1
        /\ (op \in {"Flush", "RequestCursor"} => hr = flushHr)

CancelledWriteReturned ==
    pc = "idle" /\ fl.failed /\ wdHit = "write" /\ pipe = "stalled" /\ op = "Flush"

\* C8: a _Flush that reaches the pipe calls WriteFile exactly once, with
\* exactly the bytes _Write accepted since the last WriteFile, in order; after
\* a successful _Flush the buffer is empty and the result is S_OK.
FlushSendsBufferOnce ==
    /\ payload = handed
    /\ fl.writes <= 1
    /\ (pc = "idle" /\ flushHr \notin {"none", "pending"} /\ ~fl.signaled)
          => fl.writes = 1
    /\ (pc = "idle" /\ op \in {"Flush", "RequestCursor"} /\ fl.writes = 1 /\ ~fl.failed)
          => (buffer = <<>> /\ flushHr = S_OK /\ hr = S_OK)

FlushSentInOrder ==
    /\ pc = "idle" /\ op = "Flush" /\ fl.writes = 1 /\ ~fl.failed
    /\ payload = <<"a", "b">> /\ buffer = <<>> /\ wdPc = "wait"

\* C9: once set, the shutdown event stays set whoever sets it again, and the
\* watchdog waiting on it is released.
ShutdownOneShot ==
    /\ [][shutdownEvent => shutdownEvent']_vars
    /\ (shutdownEvent ~> (wdPc # "wait"))

ShutdownSetTwice ==
    shutdownEvent /\ fl.failed /\ pc = "idle" /\ ~alive /\ wdPc = "done"

\* C10: RequestCursor appends the request and then flushes; its result is a
\* failure when the append failed (no flush is made) and when _Flush failed,
\* and S_OK only when _Flush has returned S_OK.
RequestCursorSurfacesFailure ==
    (op = "RequestCursor" /\ pc = "idle") =>
        /\ (flushHr = "none" => (hr = E_OUTOFMEMORY /\ fl.writes = 0))
        /\ (SUCCEEDED(hr) <=> SUCCEEDED(flushHr))
        /\ (~SUCCEEDED(flushHr) => hr = flushHr \/ flushHr = "none")
        /\ (fl.writes = 1 =>
              (payload # <<>> /\ <<payload[Len(payload)]>> = CursorRequest))

RequestCursorFlushFailed ==
    op = "RequestCursor" /\ pc = "idle" /\ fl.failed /\ hr = E_WRITE

\* A step of _Write or of _WriteFormattedString: the only steps that leave
\* op so and change what the call reports or the bytes accepted.
WriteStep ==
    /\ op' \in {"Write", "WriteFormattedString"}
    /\ <<op, hr, buffer, unsent>>' # <<op, hr, buffer, unsent>>

\* C21: a step of _Write or of _WriteFormattedString leaves the shutdown
\* event, the pipe, the pending write and the Blocked-Writer slot as they
\* were; it returns S_OK with the bytes appended, or E_OUTOFMEMORY /
\* E_INVALIDARG with the buffer as it was.
WriteErrorsStayLocal ==
    [][WriteStep =>
        /\ UNCHANGED <<shutdownEvent, pipe, blockedThreadId, cancelled, fSuccess, pc,
                       payload, handed, fl, flushHr>>
        /\ hr' \in {S_OK, E_OUTOFMEMORY, E_INVALIDARG}
        /\ SUCCEEDED(hr') <=> (unsent' # unsent)
        /\ ~SUCCEEDED(hr') => buffer' = buffer]_vars

\* C22: the watchdog calls CancelSynchronousIo only on a thread that is
\* inside the WriteFile of _Flush at that moment, so never once that write
\* has returned and the slot no longer holds the id the watchdog read.
CancelOnlyInsideWrite ==
    [][(wdPc = "cancel" /\ wdPc' = "done") =>
          (pc = "inWrite" \/ blockedThreadId = wdThreadId)]_vars

\* A call of Flush: the only step taken by an idle paint thread that leaves
\* op so and changes what the flush reports.
FlushCallStep ==
    /\ pc = "idle" /\ op' = "Flush"
    /\ <<op, hr, flushHr, fl, pc>>' # <<op, hr, flushHr, fl, pc>>

IsPrefix(a, b) == Len(a) <= Len(b) /\ SubSeq(b, 1, Len(a)) = a

\* C23: a _Flush that called WriteFile has returned with the buffer empty,
\* with the write succeeded or failed; a _Flush called with the event set
\* returns at once and leaves the buffer as it was; with the event set and no
\* _Flush under way, a step only ever appends to the buffer.
FlushEmptiesOrKeeps ==
    /\ []((pc = "idle" /\ op \in {"Flush", "RequestCursor"} /\ fl.writes = 1)
            => buffer = <<>>)
    /\ [][(FlushCallStep /\ shutdownEvent) => (pc' = "idle" /\ buffer' = buffer)]_vars
    /\ [][(shutdownEvent /\ pc = "idle") => IsPrefix(buffer, buffer')]_vars

\* A _Flush skipped with bytes in the buffer, after an earlier one whose
\* write failed and emptied it.
SkippedFlushKeptBuffer ==
    /\ pc = "idle" /\ op = "Flush"
    /\ fl.signaled /\ fl.writes = 0 /\ flushHr = S_OK
    /\ pipe = "broken" /\ payload # <<>>
    /\ buffer # <<>> /\ buffer = unsent

\* C13: the watchdog reads the Blocked-Writer slot and calls
\* CancelSynchronousIo only with the shutdown event set; it reads the slot
\* once (never again after that, and it has read it when it returns) and
\* cancels at most once, never when the slot it read was empty.
WatchdogReadsOnce ==
    /\ ~shutdownEvent => wdLog = NoWatchdogLog
    /\ wdLog.reads <= 1 /\ wdLog.cancels <= 1
    /\ wdPc = "done" => wdLog.reads = 1
    /\ (wdLog.reads = 1 /\ wdThreadId = NoThread) => wdLog.cancels = 0
    /\ wdLog.cancels = 1 => wdLog.reads = 1 /\ wdThreadId # NoThread

\* The watchdog read a non-empty slot and cancelled.
WatchdogCancelledOnce ==
    /\ wdPc = "done"
    /\ wdLog = [reads |-> 1, cancels |-> 1]
    /\ wdThreadId = PaintThreadId

\* C14: the Blocked-Writer slot holds the paint thread's id from the store
\* before WriteFile until the store after it, and is empty otherwise: before
\* the store, after _Flush returned (with success or with failure), and
\* whenever no _Flush is running.
SlotHeldOnlyInWrite ==
    /\ blockedThreadId \in {NoThread, PaintThreadId}
    /\ blockedThreadId # NoThread => pc \in {"write", "inWrite", "clear"}
    /\ pc \in {"write", "inWrite", "clear"} => blockedThreadId = PaintThreadId
    /\ pc \in {"idle", "store", "post"} => blockedThreadId = NoThread

\* C15: once the shutdown event is set the watchdog returns, and a destructor
\* waiting for the watchdog gets past the wait.
WatchdogTerminates ==
    /\ shutdownEvent ~> (wdPc = "done")
    /\ (dtorPc = "join") ~> (dtorPc = "done")

\* The watchdog returned although OpenThread failed, and the engine was
\* destroyed.
WatchdogDoneUnopened ==
    /\ wdPc = "done" /\ wdHit = "unopened"
    /\ dtorPc = "done"


\* =================================================================
\* Properties of the viewport and of the invalidated region
\* (specification ViewSpec).
\* =================================================================

\* C2: the invalidated region is empty or a rectangle inside the viewport.
InvalidWithinViewport ==
    IsEmptyRect(invalidRect) \/ Contains(lastViewport, invalidRect)

\* C3: _AllIsInvalid() holds right after InvalidateAll and right after every
\* UpdateViewport call that made the width or the height smaller, the other
\* one grown or not: the invalidated region is then the new viewport.
FullyInvalidAfterShrink ==
    /\ (op = "InvalidateAll" => AllIsInvalid)
    /\ (op = "UpdateViewport" /\ (last.dW < 0 \/ last.dH < 0) => AllIsInvalid)

\* C4: the UpdateViewport call that follows SuppressResizeRepaint and changes
\* the size calls _ResizeWindow not at all; a later size-changing call, with
\* no SuppressResizeRepaint in between, calls _ResizeWindow with the new width
\* and height, and when that succeeds the sequence ends the buffer.
SuppressionIsOneShot ==
    (op = "UpdateViewport" /\ last.pre.suppressed /\ (last.dW # 0 \/ last.dH # 0)) =>
        /\ (last.pre.updates = 0 => (last.emit = <<>> /\ last.before = <<>>))
        /\ (last.pre.updates >= 1 =>
              /\ last.emit = <<Width(lastViewport), Height(lastViewport)>>
              /\ (SUCCEEDED(hr) =>
                    /\ Len(buffer) >= 2
                    /\ SubSeq(buffer, Len(buffer) - 1, Len(buffer))
                         = ResizeSeq(Width(lastViewport), Height(lastViewport))))

SecondResizeEmitted ==
    /\ op = "UpdateViewport" /\ last.pre.suppressed /\ last.pre.updates = 1
    /\ SUCCEEDED(hr)
    /\ last.emit = <<2, 1>> /\ buffer = <<"ESC[8;1", ";2t">>

\* The bands of the claim: right of the old viewport, rows 0 to the old
\* bottom (if the width grew); below the old viewport, columns 0 to the new
\* right edge (if the height grew); each clipped to the new viewport, united.
ClaimedBands(oldView, newView) ==
    LET rb == Intersect(Rect(oldView.Right + 1, 0, newView.Right, oldView.Bottom), newView)
        bb == Intersect(Rect(0, oldView.Bottom + 1, newView.Right, newView.Bottom), newView)
        hasR == Width(newView) > Width(oldView) /\ ~IsEmptyRect(rb)
        hasB == Height(newView) > Height(oldView) /\ ~IsEmptyRect(bb)
    IN  IF hasR /\ hasB THEN OrViewports(rb, bb)
        ELSE IF hasR THEN rb
        ELSE IF hasB THEN bb
        ELSE Empty

\* A step of UpdateViewport (the only action that leaves op so) that grows
\* the viewport from an empty invalidated region.
GrowsFromEmpty ==
    /\ op' = "UpdateViewport"
    /\ IsEmptyRect(invalidRect)
    /\ Width(lastViewport') >= Width(lastViewport)
    /\ Height(lastViewport') >= Height(lastViewport)
    /\ (Width(lastViewport') > Width(lastViewport)
          \/ Height(lastViewport') > Height(lastViewport))

ResizeEmittedIffChangedAndClear ==
    op = "UpdateViewport" =>
        /\ (last.emit # <<>>) <=> ((last.dW # 0 \/ last.dH # 0) /\ ~last.flag)
        /\ last.emit # <<>> => last.emit = <<Width(lastViewport), Height(lastViewport)>>
        /\ ~suppressResizeRepaint

\* A call that kept the size, made with a SuppressResizeRepaint pending, and
\* used it up.
SameSizeConsumedSuppression ==
    /\ op = "UpdateViewport"
    /\ last.dW = 0 /\ last.dH = 0
    /\ last.flag /\ last.pre.suppressed /\ last.pre.updates = 0
    /\ last.emit = <<>>
    /\ ~suppressResizeRepaint

\* C17: a new engine has the suppression set; its first UpdateViewport calls
\* _ResizeWindow for no size, whatever the size passed; the first call after
\* that one that changes the size, with no SuppressResizeRepaint so far, does
\* call it with the new size, whether the first call changed the size or
\* kept it.
FirstResizeSuppressed ==
    /\ armed = NotArmed => suppressResizeRepaint
    /\ op = "UpdateViewport" =>
          /\ last.pre = NotArmed => (last.flag /\ last.emit = <<>>)
          /\ (/\ ~last.pre.suppressed /\ last.pre.updates = 1
              /\ last.pre.first \in {"kept", "changed"}
              /\ (last.dW # 0 \/ last.dH # 0))
               => last.emit = <<Width(lastViewport), Height(lastViewport)>>

\* The first call of a new engine changed the size and emitted nothing, the
\* calls after it kept the size; this call changed it again and called
\* _ResizeWindow.
ResizeEmittedAfterSuppressedChange ==
    /\ op = "UpdateViewport"
    /\ last.pre = [suppressed |-> FALSE, updates |-> 1, first |-> "changed"]
    /\ last.dW # 0
    /\ last.emit = <<Width(lastViewport), Height(lastViewport)>>

\* The first calls of a new engine kept the size, this one changed it and
\* called _ResizeWindow.
FirstRealResizeEmitted ==
    /\ op = "UpdateViewport"
    /\ last.pre = [suppressed |-> FALSE, updates |-> 1, first |-> "kept"]
    /\ last.dW # 0
    /\ last.emit = <<Width(lastViewport), Height(lastViewport)>>

\* C18: after every UpdateViewport call the viewport is the rectangle passed
\* in and _resized is set: with or without a change of size, with the resize
\* emitted or suppressed, with the call succeeding or failing.
ViewportAlwaysReplaced ==
    op = "UpdateViewport" =>
        /\ lastViewport = FromInclusive(last.arg)
        /\ resized

\* A call that failed (the resize sequence could not be appended) and a new
\* viewport of another size.
FailedUpdateReplacedViewport ==
    /\ op = "UpdateViewport"
    /\ hr = E_OUTOFMEMORY
    /\ last.dH # 0
    /\ lastViewport = FromInclusive(last.arg)
    /\ resized
\* C24: an UpdateViewport call whose resize sequence could not be appended
\* (last.before holds the region the call found) returned that failure; the
\* viewport is the rectangle passed in, the suppression flag is clear, and
\* the invalidated region is the one the call found. No other call returns
\* the failure of _ResizeWindow.
FailedResizeKeepsRegion ==
    op = "UpdateViewport" =>
        /\ (last.before # <<>>) <=> (hr = E_OUTOFMEMORY)
        /\ last.before # <<>> =>
              /\ last.emit # <<>>
              /\ ~SUCCEEDED(hr)
              /\ lastViewport = FromInclusive(last.arg)
              /\ ~suppressResizeRepaint
              /\ last.before = <<invalidRect>>

\* A viewport made narrower by a call that failed: the region is not the
\* whole of the new viewport.
FailedShrinkNotInvalidated ==
    /\ op = "UpdateViewport"
    /\ hr = E_OUTOFMEMORY
    /\ last.dW < 0
    /\ ~suppressResizeRepaint
    /\ last.before = <<invalidRect>>
    /\ invalidRect # lastViewport

\* =================================================================
\* Properties of the cursor and resize-request calls (specification
\* CallSpec).
\* =================================================================

\* C19: _inResizeRequest is set exactly when the last of the two calls was
\* BeginResizeRequest, so a call repeated leaves it as the first one did; and
\* a step of either call leaves the viewport, the invalidated region, the
\* suppression flag, the buffer and the rest of the engine as they were.
ResizeRequestIdempotent ==
    /\ [](inResizeRequest <=> (resizeCall.call = "begin"))
    /\ [][op' \in {"BeginResizeRequest", "EndResizeRequest"} =>
            UNCHANGED <<ioVars, viewVars, virtualTop, lastText, skipCursor, firstPaint>>]_vars

\* BeginResizeRequest called twice in a row, on an engine with bytes in the
\* buffer and a suppression pending.
BeginRepeated ==
    /\ op = "BeginResizeRequest"
    /\ resizeCall = [call |-> "begin", repeated |-> TRUE]
    /\ inResizeRequest
    /\ buffer # <<>> /\ suppressResizeRepaint /\ armed.suppressed

\* C20: after InheritCursor(pos) _virtualTop is the row of pos, _lastText is
\* pos, _skipCursor is set, _firstPaint is clear and S_OK was returned; the
\* step leaves the buffer, the viewport, the invalidated region, the
\* suppression flag and the resize-request flag as they were.
InheritCursorEffect ==
    /\ [](op = "InheritCursor" =>
            /\ virtualTop = last.cursor.Y
            /\ lastText = last.cursor
            /\ skipCursor /\ ~firstPaint
            /\ hr = S_OK)
    /\ [][op' = "InheritCursor" =>
            UNCHANGED <<buffer, unsent, lastViewport, invalidRect,
                        suppressResizeRepaint, inResizeRequest>>]_vars

\* A cursor inherited at column 1 of row 0, inside a resize request, with
\* bytes in the buffer and the whole viewport invalid.
CursorInherited ==
    /\ op = "InheritCursor"
    /\ lastText = [X |-> 1, Y |-> 0] /\ virtualTop = 0
    /\ skipCursor /\ ~firstPaint
    /\ inResizeRequest /\ buffer # <<>> /\ invalidRect = lastViewport
====
